---- MODULE Spec2Model ----
(***************************************************************************)
(* A model of the gamma_table procedural macro (src/src/lib.rs): the       *)
(* validation in generate_gamma_table and the table evaluation in          *)
(* generate_table_values.                                                  *)
(*                                                                         *)
(* u64 values (max_value, the table entries, the type maxima) do not fit   *)
(* the integers of the model checker, and f64 arithmetic is what decides   *)
(* the table's entries, so both are modelled to the bit: a u64 is a        *)
(* little-endian sequence of 15-bit limbs, an f64 is a record with a       *)
(* 53-bit significand and a binary exponent, and every f64 operation       *)
(* rounds to nearest, ties to even, as IEEE 754 binary64 does.             *)
(***************************************************************************)
EXTENDS Integers, Sequences, FiniteSets, TLC

(***************************************************************************)
(* Unsigned integers of any width: little-endian limbs, no leading zero    *)
(* limb; zero is the empty sequence.                                       *)
(***************************************************************************)
Limb == 2^15

RECURSIVE IntBitLen(_)
IntBitLen(n) == IF n = 0 THEN 0 ELSE 1 + IntBitLen(n \div 2)

\* the number of bits of a limb
LimbBits == IntBitLen(Limb) - 1

RECURSIVE BigNorm(_)
BigNorm(a) ==
  IF a = <<>> THEN <<>>
  ELSE IF a[Len(a)] = 0 THEN BigNorm(SubSeq(a, 1, Len(a) - 1))
  ELSE a

RECURSIVE BigFromInt(_)
BigFromInt(n) ==
  IF n = 0 THEN <<>> ELSE <<n % Limb>> \o BigFromInt(n \div Limb)

RECURSIVE BigCmpFrom(_, _, _)
BigCmpFrom(a, b, k) ==
  IF k = 0 THEN 0
  ELSE IF a[k] < b[k] THEN -1
  ELSE IF a[k] > b[k] THEN 1
  ELSE BigCmpFrom(a, b, k - 1)

\* -1, 0 or 1 as a < b, a = b or a > b
BigCmp(a, b) ==
  IF Len(a) < Len(b) THEN -1
  ELSE IF Len(a) > Len(b) THEN 1
  ELSE BigCmpFrom(a, b, Len(a))

BigLe(a, b) == BigCmp(a, b) <= 0

BigLt(a, b) == BigCmp(a, b) < 0

BigMin(a, b) == IF BigLe(a, b) THEN a ELSE b

RECURSIVE BigAddC(_, _, _)
BigAddC(a, b, c) ==
  IF a = <<>> /\ b = <<>> THEN (IF c = 0 THEN <<>> ELSE <<c>>)
  ELSE LET x == IF a = <<>> THEN 0 ELSE Head(a)
           y == IF b = <<>> THEN 0 ELSE Head(b)
           s == x + y + c
       IN  <<s % Limb>> \o BigAddC(IF a = <<>> THEN a ELSE Tail(a),
                                   IF b = <<>> THEN b ELSE Tail(b),
                                   s \div Limb)

BigAdd(a, b) == BigAddC(a, b, 0)

RECURSIVE BigSubB(_, _, _)
BigSubB(a, b, c) ==
  IF a = <<>> THEN <<>>
  ELSE LET y == IF b = <<>> THEN 0 ELSE Head(b)
           d == Head(a) - y - c
       IN  <<d % Limb>> \o BigSubB(Tail(a),
                                   IF b = <<>> THEN b ELSE Tail(b),
                                   IF d < 0 THEN 1 ELSE 0)

\* a - b, for a >= b
BigSub(a, b) == BigNorm(BigSubB(a, b, 0))

RECURSIVE BigMulSmallC(_, _, _)
BigMulSmallC(a, k, c) ==
  IF a = <<>> THEN (IF c = 0 THEN <<>> ELSE <<c>>)
  ELSE LET p == Head(a) * k + c
       IN  <<p % Limb>> \o BigMulSmallC(Tail(a), k, p \div Limb)

\* a * k, for 0 <= k <= Limb
BigMulSmall(a, k) == BigNorm(BigMulSmallC(a, k, 0))

RECURSIVE BigMul(_, _)
BigMul(a, b) ==
  IF a = <<>> \/ b = <<>> THEN <<>>
  ELSE LET rest == BigMul(a, Tail(b))
       IN  BigAdd(BigMulSmall(a, Head(b)),
                  IF rest = <<>> THEN <<>> ELSE <<0>> \o rest)

RECURSIVE BigDivSmallR(_, _, _, _)
BigDivSmallR(a, k, i, r) ==
  IF i = 0 THEN <<>>
  ELSE LET n == r * Limb + a[i]
       IN  BigDivSmallR(a, k, i - 1, n % k) \o <<n \div k>>

\* floor(a / k), for 0 < k <= Limb
BigDivSmall(a, k) == BigNorm(BigDivSmallR(a, k, Len(a), 0))

BigZeros(n) == [j \in 1..n |-> 0]

\* a * 2^k
BigShl(a, k) ==
  IF a = <<>> THEN <<>>
  ELSE BigZeros(k \div LimbBits) \o BigMulSmall(a, 2^(k % LimbBits))

\* floor(a / 2^k)
BigShr(a, k) ==
  IF Len(a) <= k \div LimbBits THEN <<>>
  ELSE BigDivSmall(SubSeq(a, (k \div LimbBits) + 1, Len(a)), 2^(k % LimbBits))

BigBitLen(a) ==
  IF a = <<>> THEN 0 ELSE LimbBits * (Len(a) - 1) + IntBitLen(a[Len(a)])

\* bit k of a (bit 0 is the least significant)
BigBit(a, k) ==
  IF Len(a) <= k \div LimbBits THEN 0
  ELSE (a[(k \div LimbBits) + 1] \div 2^(k % LimbBits)) % 2

\* a mod 2^k
BigLowBits(a, k) == BigSub(a, BigShl(BigShr(a, k), k))

BigOne == <<1>>

\* 2^k - 1
BigAllOnes(k) == BigSub(BigShl(BigOne, k), BigOne)

\* one digit of a long division: the largest q with q * d <= r, for
\* r < d * Limb and d with its top limb at least Limb / 2
BigDigit(r, d) ==
  LET n   == Len(d)
      top == (IF Len(r) > n THEN r[n + 1] ELSE 0) * Limb
               + (IF Len(r) >= n THEN r[n] ELSE 0)
      est == IF top \div d[n] < Limb THEN top \div d[n] ELSE Limb - 1
  IN  IF BigLe(BigMulSmall(d, est), r) THEN est
      ELSE IF BigLe(BigMulSmall(d, est - 1), r) THEN est - 1
      ELSE est - 2

\* long division of a by d, limb i of a next: qr = <<the quotient's limbs
\* so far, the remainder so far>>
RECURSIVE BigDivDown(_, _, _, _)
BigDivDown(a, d, i, qr) ==
  IF i = 0 \/ qr = <<>> THEN qr
  ELSE LET r == IF qr[2] = <<>> /\ a[i] = 0 THEN <<>> ELSE <<a[i]>> \o qr[2]
           q == BigDigit(r, d)
       IN  BigDivDown(a, d, i - 1,
                      << <<q>> \o qr[1], BigSub(r, BigMulSmall(d, q)) >>)

\* <<floor(a / d), a mod d>>, for d > 0; a d that is one limb above zero
\* limbs is divided by in one pass
BigDivMod(a, d) ==
  IF \A j \in 1..(Len(d) - 1) : d[j] = 0
  THEN LET z  == Len(d) - 1
           hi == IF Len(a) <= z THEN <<>> ELSE SubSeq(a, z + 1, Len(a))
           q  == BigDivSmall(hi, d[Len(d)])
       IN  <<q, BigSub(a, BigMul(q, d))>>
  ELSE LET s  == LimbBits - IntBitLen(d[Len(d)])
           an == BigShl(a, s)
           qr == BigDivDown(an, BigShl(d, s), Len(an), << <<>>, <<>> >>)
       IN  <<BigNorm(qr[1]), BigShr(qr[2], s)>>

\* Newton's iteration down from x >= sqrt(n)
RECURSIVE BigSqrtFrom(_, _)
BigSqrtFrom(n, x) ==
  LET y == BigShr(BigAdd(x, BigDivMod(n, x)[1]), 1)
  IN  IF BigLt(y, x) THEN BigSqrtFrom(n, y) ELSE x

RECURSIVE IntSqrtFrom(_, _)
IntSqrtFrom(n, x) ==
  LET y == (x + n \div x) \div 2
  IN  IF y < x THEN IntSqrtFrom(n, y) ELSE x

\* the largest r with r * r <= n, for n > 0: Newton's iteration from the
\* root of n's leading bits, rounded up
BigSqrt(n) ==
  LET len  == BigBitLen(n)
      low  == IF len <= 2 * LimbBits THEN 0
              ELSE len - 2 * LimbBits + ((len - 2 * LimbBits) % 2)
      top  == BigShr(n, low)
      lead == IF Len(top) = 1 THEN top[1] ELSE top[2] * Limb + top[1]
  IN  BigSqrtFrom(n, BigShl(BigFromInt(IntSqrtFrom(lead, Limb) + 1), low \div 2))

(***************************************************************************)
(* f64: IEEE 754 binary64.  A finite nonzero value is sgn * m * 2^e with   *)
(* 2^52 <= m < 2^53; the values of this program stay far from the          *)
(* subnormal and the overflow range, so e is not bounded here.             *)
(***************************************************************************)
MantissaBits == 53

FNaN == [cls |-> "nan", neg |-> FALSE, m |-> <<>>, e |-> 0]

FInf == [cls |-> "inf", neg |-> FALSE, m |-> <<>>, e |-> 0]

FZero == [cls |-> "zero", neg |-> FALSE, m |-> <<>>, e |-> 0]

FNeg(a) == [a EXCEPT !.neg = ~a.neg]

\* n * 2^e (n > 0; sticky: a nonzero part below n's last bit has been cut
\* off) rounded to nearest, ties to even
FPack(n, e, sticky) ==
  LET len == BigBitLen(n)
      cut == len - MantissaBits
  IN  IF cut <= 0
      THEN [cls |-> "fin", neg |-> FALSE, m |-> BigShl(n, -cut), e |-> e + cut]
      ELSE LET q     == BigShr(n, cut)
               guard == BigBit(n, cut - 1) = 1
               rest  == sticky \/ BigLowBits(n, cut - 1) # <<>>
               up    == guard /\ (rest \/ BigBit(q, 0) = 1)
               r     == IF up THEN BigAdd(q, BigOne) ELSE q
           IN  IF BigBitLen(r) > MantissaBits
               THEN [cls |-> "fin", neg |-> FALSE, m |-> BigShr(r, 1), e |-> e + cut + 1]
               ELSE [cls |-> "fin", neg |-> FALSE, m |-> r, e |-> e + cut]

\* `n as f64` for an unsigned integer n
U64ToF64(n) == IF n = <<>> THEN FZero ELSE FPack(n, 0, FALSE)

FOne == [cls |-> "fin", neg |-> FALSE, m |-> BigShl(BigOne, MantissaBits - 1), e |-> 1 - MantissaBits]

\* a == b, as f64 compares (NaN equals nothing, -0.0 equals 0.0)
FEq(a, b) ==
  /\ a.cls # "nan" /\ b.cls # "nan"
  /\ a.cls = b.cls
  /\ a.cls = "zero" \/ (a.neg = b.neg /\ a.m = b.m /\ a.e = b.e)

\* a <= 0.0, as f64 compares (false for NaN)
FLeZero(a) == a.cls = "zero" \/ (a.cls \in {"fin", "inf"} /\ a.neg)

\* a * b
FMul(a, b) ==
  IF a.cls = "nan" \/ b.cls = "nan" THEN FNaN
  ELSE IF a.cls = "inf" \/ b.cls = "inf"
  THEN (IF a.cls = "zero" \/ b.cls = "zero" THEN FNaN
        ELSE [FInf EXCEPT !.neg = (a.neg # b.neg)])
  ELSE IF a.cls = "zero" \/ b.cls = "zero"
  THEN [FZero EXCEPT !.neg = (a.neg # b.neg)]
  ELSE [FPack(BigMul(a.m, b.m), a.e + b.e, FALSE) EXCEPT !.neg = (a.neg # b.neg)]

\* a / b
FDiv(a, b) ==
  IF a.cls = "nan" \/ b.cls = "nan" THEN FNaN
  ELSE IF a.cls = "inf"
  THEN (IF b.cls = "inf" THEN FNaN ELSE [FInf EXCEPT !.neg = (a.neg # b.neg)])
  ELSE IF b.cls = "inf" THEN [FZero EXCEPT !.neg = (a.neg # b.neg)]
  ELSE IF b.cls = "zero"
  THEN (IF a.cls = "zero" THEN FNaN ELSE [FInf EXCEPT !.neg = (a.neg # b.neg)])
  ELSE IF a.cls = "zero" THEN [FZero EXCEPT !.neg = (a.neg # b.neg)]
  ELSE LET qr == BigDivMod(BigShl(a.m, MantissaBits + 2), b.m)
       IN  [FPack(qr[1], a.e - b.e - (MantissaBits + 2), qr[2] # <<>>)
              EXCEPT !.neg = (a.neg # b.neg)]

\* the square root of a >= 0, correctly rounded
FSqrt(a) ==
  IF a.cls = "nan" THEN FNaN
  ELSE IF a.cls = "zero" THEN a
  ELSE IF a.neg THEN FNaN
  ELSE IF a.cls = "inf" THEN FInf
  ELSE LET odd == a.e % 2 # 0
           \* n * 2^x = a with x even, and n long enough for a root of 55 bits
           s   == MantissaBits + 3 + (IF odd THEN 1 ELSE 0)
           n   == BigShl(a.m, s)
           x   == a.e - s
           r   == BigSqrt(n)
       IN  FPack(r, x \div 2, BigMul(r, r) # n)

\* f64::round: to the nearest integer, half-way cases away from zero
FRound(a) ==
  IF a.cls # "fin" \/ a.e >= 0 THEN a
  ELSE LET q    == BigShr(a.m, -a.e)
           half == BigBit(a.m, -a.e - 1) = 1
           r    == IF half THEN BigAdd(q, BigOne) ELSE q
       IN  IF r = <<>> THEN [FZero EXCEPT !.neg = a.neg]
           ELSE [FPack(r, 0, FALSE) EXCEPT !.neg = a.neg]

U64Bits == 64

U64Max == BigAllOnes(U64Bits)

\* a cast that wraps around instead of saturating
F64ToU64Wrapping(a) ==
  IF a.cls # "fin" \/ a.neg THEN <<>>
  ELSE IF a.e >= 0 THEN BigLowBits(BigShl(a.m, a.e), U64Bits)
  ELSE BigShr(a.m, -a.e)

\* `a as u64`: truncates toward zero and saturates; NaN gives 0
F64ToU64(a) ==
  IF a.cls \in {"nan", "zero"} \/ a.neg THEN <<>>
  ELSE IF a.cls = "inf" THEN U64Max
  ELSE IF a.e >= 0
  THEN (IF BigBitLen(a.m) + a.e > U64Bits THEN U64Max ELSE BigShl(a.m, a.e))
  ELSE BigShr(a.m, -a.e)

\* f64::powf(x, y) for x >= 0: the special cases of IEEE 754 pow, the
\* exponents 1, 2 and 1/2 of this model (x, the correctly rounded x * x and
\* the correctly rounded square root of x)
FTwo == [FOne EXCEPT !.e = 2 - MantissaBits]

FHalf == [FOne EXCEPT !.e = -MantissaBits]

powf(x, y) ==
  IF y.cls = "zero" \/ FEq(x, FOne) THEN FOne
  ELSE IF x.cls = "nan" \/ y.cls = "nan" THEN FNaN
  ELSE IF x.cls = "zero" THEN (IF y.neg THEN FInf ELSE FZero)
  ELSE IF y.cls = "inf"
  THEN (IF (x.cls = "inf" \/ BigBitLen(x.m) + x.e > 0) = y.neg THEN FZero ELSE FInf)
  ELSE IF x.cls = "inf" THEN (IF y.neg THEN FZero ELSE FInf)
  ELSE CASE FEq(y, FOne)  -> x
         [] FEq(y, FTwo)  -> FMul(x, x)
         [] FEq(y, FHalf) -> FSqrt(x)

(***************************************************************************)
(* The macro's input: struct GammaTableInput.  An Option is a sequence of   *)
(* no or of one value; a syn::Type is a path (its segments) or something   *)
(* else (a reference, an array, ...).                                      *)
(***************************************************************************)
None == <<>>

Some(v) == <<v>>

\* Option::unwrap_or
UnwrapOr(opt, default) == IF opt = None THEN default ELSE opt[1]

TypePath(segments) == [kind |-> "path", segments |-> segments]

TypeReference == [kind |-> "reference", segments |-> <<>>]

\* the tokens of a type, as quote!(#entry_type) prints them
TypeTokens(entry_type) ==
  IF entry_type.kind = "path" THEN entry_type.segments ELSE <<"&", "u8">>

\* a table of maxima that knows i32
get_integer_type_max_value_i32(entry_type) ==
  IF entry_type.kind = "path"
  THEN IF Len(entry_type.segments) > 0
       THEN LET ident == entry_type.segments[Len(entry_type.segments)]
            IN  CASE ident = "u8"  -> Some(BigAllOnes(8))
                  [] ident = "u16" -> Some(BigAllOnes(16))
                  [] ident = "u32" -> Some(BigAllOnes(32))
                  [] ident = "u64" -> Some(U64Max)
                  [] ident = "i32" -> Some(BigAllOnes(31))
                  [] OTHER         -> None
       ELSE None
  ELSE None

\* the table of maxima with u16's maximum in the row of u8
get_integer_type_max_value_u8_row(entry_type) ==
  IF entry_type.kind = "path"
  THEN IF Len(entry_type.segments) > 0
       THEN LET ident == entry_type.segments[Len(entry_type.segments)]
            IN  CASE ident = "u8"  -> Some(BigAllOnes(16))
                  [] ident = "u16" -> Some(BigAllOnes(16))
                  [] ident = "u32" -> Some(BigAllOnes(32))
                  [] ident = "u64" -> Some(U64Max)
                  [] OTHER         -> None
       ELSE None
  ELSE None

get_integer_type_max_value(entry_type) ==
  IF entry_type.kind = "path"
  THEN IF Len(entry_type.segments) > 0
       THEN LET ident == entry_type.segments[Len(entry_type.segments)]
            IN  CASE ident = "u8"  -> Some(BigAllOnes(8))
                  [] ident = "u16" -> Some(BigAllOnes(16))
                  [] ident = "u32" -> Some(BigAllOnes(32))
                  [] ident = "u64" -> Some(U64Max)
                  [] OTHER         -> None
       ELSE None
  ELSE None

\* the width of the integer type that the emitted `as #entry_type` casts to
EntryTypeBits(entry_type) ==
  LET ident == entry_type.segments[Len(entry_type.segments)]
  IN  CASE ident = "u8"  -> 8
        [] ident = "u16" -> 16
        [] ident = "u32" -> 32
        [] ident = "u64" -> U64Bits

\* `v as entry_type` in the emitted array: the low bits of v that the type holds
CastToEntryType(v, entry_type) == BigLowBits(v, EntryTypeBits(entry_type))

\* a default that forgets the `- 1`
UsizeNotMinusOne(size) == BigFromInt(size)

\* `(size - 1) as u64` on a 64-bit usize; 0 - 1 wraps around where the
\* build has no overflow checks
UsizeMinusOne(size) == IF size = 0 THEN U64Max ELSE BigFromInt(size - 1)

\* `size < 3`
MinSize == 3

\* a check that lets size 2 through
TooSmallBelowTwo(size) == size < MinSize - 1

TooSmall(size) == size < MinSize

\* `>=` in the place of `>`
ReachesTypeMax(max, type_max) == BigLe(type_max, max)

\* `max_value > type_max`
ExceedsTypeMax(max, type_max) == BigLt(type_max, max)

(***************************************************************************)
(* generate_table_values                                                   *)
(***************************************************************************)
\* `size as f64`, `i as f64` for a usize of the model
UsizeToF64(n) == U64ToF64(BigFromInt(n))

\* the exponents of the two modes exchanged
gamma_exponent_swapped(gamma, decoding) ==
  IF decoding THEN gamma ELSE FDiv(FOne, gamma)

\* an exponent that ignores the mode
gamma_exponent_encoding(gamma, decoding) == gamma

gamma_exponent(gamma, decoding) == IF decoding THEN FDiv(FOne, gamma) ELSE gamma

normalized_input(i, size) == FDiv(UsizeToF64(i), UsizeToF64(size - 1))

output_value(processed, max_value) ==
  F64ToU64(FRound(FMul(processed, U64ToF64(max_value))))

\* the value pushed for index i
TableEntry(i, size, exponent, max_value) ==
  LET processed == powf(normalized_input(i, size), exponent)
  IN  BigMin(output_value(processed, max_value), max_value)

(***************************************************************************)
(* The errors of generate_gamma_table, with the text of their messages.    *)
(***************************************************************************)
ErrGamma == [kind |-> "err", error |-> "gamma", msg |-> <<"Gamma value must be positive">>]

ErrSize ==
  [kind |-> "err", error |-> "size",
   msg |-> <<"Size must be at least 3 to create a meaningful gamma table. Smaller sizes only have min and max values.">>]

ErrOverflow(max, type_max, entry_type) ==
  [kind |-> "err", error |-> "overflow",
   msg |-> <<"max_value (", max, ") exceeds the maximum value (", type_max,
             ") that can be stored in entry_type ", TypeTokens(entry_type)>>]

ErrUnsupported(entry_type) ==
  [kind |-> "err", error |-> "unsupported",
   msg |-> <<"Unsupported entry_type: ", TypeTokens(entry_type),
             ". Supported types are: u8, u16, u32, u64">>]

\* the error of GammaTableInput::parse for a parameter it does not know
ErrUnknownParameter(ident) ==
  [kind |-> "err", error |-> "unknown_parameter",
   msg |-> <<"Unknown parameter: ", ident>>]

Panic == [kind |-> "panic", error |-> "attempt to subtract with overflow", msg |-> <<>>]

\* const #name: [#entry_type; #size] = [#(#v as #entry_type),*];
Tokens(name, entry_type, size, vals) ==
  [kind |-> "ok", error |-> "",
   msg |-> <<name, entry_type, size,
             [j \in 1..Len(vals) |-> CastToEntryType(vals[j], entry_type)]>>]

NoResult == [kind |-> "none", error |-> "", msg |-> <<>>]

(***************************************************************************)
(* The inputs of the model.                                                *)
(***************************************************************************)
\* table sizes 0..MaxSize, and the sizes of the documented scenarios
MaxSize == 5

Sizes == 0..MaxSize \cup {10, 11}

FMinusOne == FNeg(FOne)

FNegZero == FNeg(FZero)

Gammas == {FMinusOne, FNegZero, FZero, FHalf, FOne, FTwo, FInf, FNaN}

U8 == TypePath(<<"u8">>)

U16 == TypePath(<<"u16">>)

U32 == TypePath(<<"u32">>)

U64 == TypePath(<<"u64">>)

I32 == TypePath(<<"i32">>)

F32 == TypePath(<<"f32">>)

EntryTypes == {U8, U16, U32, U64, I32, TypeReference}

Pow2(k) == BigShl(BigOne, k)

\* 0, 1, 2, 45, the largest value of each entry type and the value after it, and
\* 2^53 + 1, the first integer that is no f64
Ceilings ==
  {<<>>, BigOne, BigFromInt(2), BigFromInt(45),
   BigAllOnes(8), Pow2(8), BigAllOnes(16), Pow2(16), BigAllOnes(32), Pow2(32),
   BigAdd(Pow2(MantissaBits), BigOne), U64Max}

MaxValues == {None} \cup {Some(c) : c \in Ceilings}

Decodings == {None, Some(TRUE), Some(FALSE)}

TableName == "GAMMA_TABLE"

\* extra: the parameters of the invocation that are none of name,
\* entry_type, gamma, size, max_value and decoding
GridInputs ==
  [name : {TableName}, entry_type : EntryTypes, gamma : Gammas, size : Sizes,
   max_value : MaxValues, decoding : Decodings, extra : {<<>>}]

Scenario(entry_type, size, max, decoding) ==
  [name |-> TableName, entry_type |-> entry_type, gamma |-> FTwo, size |-> size,
   max_value |-> max, decoding |-> decoding, extra |-> <<>>]

\* the tables of the tests and of the documentation that are not in the
\* grid, with gamma 2.0 for their gamma
ScenarioInputs ==
  {Scenario(U8, 256, Some(BigAllOnes(8)), None),
   Scenario(U8, 256, Some(BigAllOnes(8)), Some(TRUE)),
   Scenario(U8, 256, None, None),
   Scenario(U8, 256, Some(BigFromInt(128)), None),
   Scenario(U16, 256, Some(BigAllOnes(16)), None),
   Scenario(U8, 1024, None, None),
   Scenario(U8, 10, Some(BigFromInt(300)), None),
   Scenario(U16, 10, Some(BigFromInt(70000)), None),
   Scenario(U32, 10, Some(BigMulSmall(BigFromInt(500000), 10000)), None),
   Scenario(U32, 10, Some(BigFromInt(1000000)), None),
   Scenario(U64, 10, Some(BigFromInt(1000000)), None),
   Scenario(I32, 10, Some(BigFromInt(100)), None),
   Scenario(F32, 10, Some(BigFromInt(100)), None),
   Scenario(F32, 10, None, None),
   Scenario(U8, 10, Some(BigFromInt(100)), None),
   Scenario(U8, 10, Some(BigFromInt(100)), Some(TRUE))}

\* the invocations of the tests with a parameter more: `steps: 8` (encoding
\* and decoding) and `unknown_param: 42`
ExtraInputs ==
  {[Scenario(U8, 256, Some(BigAllOnes(8)), None) EXCEPT !.extra = <<"steps">>],
   [Scenario(U8, 256, Some(BigAllOnes(8)), Some(TRUE)) EXCEPT !.extra = <<"steps">>],
   [Scenario(U8, 10, None, None) EXCEPT !.extra = <<"unknown_param">>]}

Inputs == GridInputs \cup ScenarioInputs \cup ExtraInputs

\* the value of `input` while no call is under way
NoInput ==
  [name |-> TableName, entry_type |-> TypeReference, gamma |-> FZero, size |-> 0,
   max_value |-> None, decoding |-> None, extra |-> <<>>]

(***************************************************************************)
(* generate_gamma_table, step by step.                                     *)
(***************************************************************************)
VARIABLES
  pc,              \* where generate_gamma_table is
  input,           \* its argument
  max_value,       \* the local max_value
  exponent,        \* generate_table_values' gamma_exponent
  values,          \* generate_table_values' vector
  result           \* what generate_gamma_table returns

vars == <<pc, input, max_value, exponent, values, result>>

Init ==
  /\ pc = "idle"
  /\ input = NoInput
  /\ max_value = <<>>
  /\ exponent = FZero
  /\ values = <<>>
  /\ result = NoResult

\* GammaTableInput::parse, lines 127-167: the error of the first parameter
\* that matches no arm, or None
parse_error(in) ==
  IF in.extra # <<>> THEN Some(ErrUnknownParameter(in.extra[1])) ELSE None

\* lines 101, 127-167: parse_macro_input! returns the error of the parser
\* as the expansion, and generate_gamma_table is not called
ParseError(in) ==
  /\ pc = "idle"
  /\ parse_error(in) # None
  /\ input' = in
  /\ pc' = "parse_error"
  /\ result' = parse_error(in)[1]
  /\ UNCHANGED <<max_value, exponent, values>>

\* lines 205-210: the locals; `size - 1` is computed whether or not
\* max_value is given, and with size 0 it panics in a build with overflow
\* checks and wraps around in a build without
Call(in) ==
  /\ pc = "idle"
  /\ input' = in
  /\ \/ /\ in.size = 0
        /\ pc' = "done"
        /\ result' = Panic
        /\ UNCHANGED max_value
     \/ /\ pc' = "check_gamma"
        /\ max_value' = UnwrapOr(in.max_value, UsizeMinusOne(in.size))
        /\ UNCHANGED result
  /\ UNCHANGED <<exponent, values>>

\* lines 213-215
CheckGamma ==
  /\ pc = "check_gamma"
  /\ IF FLeZero(input.gamma)
     THEN pc' = "done" /\ result' = ErrGamma
     ELSE pc' = "check_size" /\ UNCHANGED result
  /\ UNCHANGED <<input, max_value, exponent, values>>

\* lines 216-221
CheckSize ==
  /\ pc = "check_size"
  /\ IF TooSmall(input.size)
     THEN pc' = "done" /\ result' = ErrSize
     ELSE pc' = "check_type" /\ UNCHANGED result
  /\ UNCHANGED <<input, max_value, exponent, values>>

\* lines 224-244
CheckType ==
  /\ pc = "check_type"
  /\ LET type_max == get_integer_type_max_value(input.entry_type)
     IN  IF type_max # None
         THEN IF ExceedsTypeMax(max_value, type_max[1])
              THEN /\ pc' = "done"
                   /\ result' = ErrOverflow(max_value, type_max[1], input.entry_type)
              ELSE pc' = "evaluate" /\ UNCHANGED result
         ELSE pc' = "done" /\ result' = ErrUnsupported(input.entry_type)
  /\ UNCHANGED <<input, max_value, exponent, values>>

\* line 247, lines 261-268: the call of generate_table_values
Evaluate ==
  /\ pc = "evaluate"
  /\ pc' = "loop"
  /\ values' = <<>>
  /\ exponent' = gamma_exponent(input.gamma, UnwrapOr(input.decoding, FALSE))
  /\ UNCHANGED <<input, max_value, result>>

\* lines 271-283: one turn of the loop, i = Len(values)
LoopStep ==
  /\ pc = "loop"
  /\ Len(values) < input.size
  /\ values' = Append(values, TableEntry(Len(values), input.size, exponent, max_value))
  /\ UNCHANGED <<pc, input, max_value, exponent, result>>

\* lines 250-257: the tokens of the constant
Emit ==
  /\ pc = "loop"
  /\ Len(values) = input.size
  /\ pc' = "done"
  /\ result' = Tokens(input.name, input.entry_type, input.size, values)
  /\ UNCHANGED <<input, max_value, exponent, values>>

\* lines 100-106: the macro is expanded on some input
gamma_table(in) ==
  \/ ParseError(in)
  \/ parse_error(in) = None /\ Call(in)

Invoke == pc = "idle" /\ \E in \in Inputs : gamma_table(in)

Next ==
  \/ Invoke
  \/ CheckGamma
  \/ CheckSize
  \/ CheckType
  \/ Evaluate
  \/ LoopStep
  \/ Emit

Spec == Init /\ [][Next]_vars

(***************************************************************************)
(* The properties of the generated table.                                  *)
(***************************************************************************)
\* generate_gamma_table has returned the tokens of a table
Accepted == pc = "done" /\ result.kind = "ok"

\* the array literal of the returned tokens
EmittedTable == result.msg[4]

SupportedTypes == {U8, U16, U32, U64}

\* C1: in every accepted call, encoding or decoding, the last entry of the
\* table of generate_table_values (index size - 1) is max_value, whatever
\* ceiling the entry type allows, up to 2^64 - 1.
C1_LastEntryIsCeiling ==
  Accepted => values[input.size] = max_value /\ EmittedTable[input.size] = max_value

\* C2: in every accepted call, encoding or decoding, entry 0 of the table
\* is 0.
C2_FirstEntryIsZero ==
  Accepted => values[1] = <<>> /\ EmittedTable[1] = <<>>

\* C3: the table never decreases from one index to the next: while it is
\* filled, when it is complete, and as it is emitted; encoding or decoding,
\* whatever the ratio of size to ceiling.
C3_Monotonic ==
  /\ \A j \in 1..(Len(values) - 1) : BigLe(values[j], values[j + 1])
  /\ Accepted =>
       \A j \in 1..(input.size - 1) : BigLe(EmittedTable[j], EmittedTable[j + 1])

\* an accepted decoding table of 11 entries with ceiling 1: it repeats a
\* value and it rises
C3_Witness ==
  /\ Accepted
  /\ input.size = 11
  /\ max_value = BigOne
  /\ input.decoding = Some(TRUE)
  /\ \E j \in 1..10 : values[j] = values[j + 1]
  /\ \E j \in 1..10 : BigLt(values[j], values[j + 1])

\* C4: the emitted table has exactly size entries, every entry is at most
\* max_value, max_value is at most the maximum of the entry type, and the
\* cast of each entry to the entry type leaves it as it was.
C4_EntriesFit ==
  Accepted =>
    /\ Len(values) = input.size
    /\ Len(EmittedTable) = input.size
    /\ input.entry_type \in SupportedTypes
    /\ BigBitLen(max_value) <= EntryTypeBits(input.entry_type)
    /\ \A j \in 1..input.size :
         /\ BigLe(values[j], max_value)
         /\ EmittedTable[j] = values[j]

\* an accepted u8 table whose ceiling and last entry are 255, the maximum of
\* u8
C4_Witness ==
  /\ Accepted
  /\ input.entry_type = U8
  /\ max_value = BigAllOnes(8)
  /\ EmittedTable[input.size] = BigAllOnes(8)
  /\ \E j \in 1..input.size : BigLt(values[j], max_value)

(***************************************************************************)
(* The properties of the validation.  The checks come in the order gamma,  *)
(* size, entry type and ceiling, so what a later check answers is seen in  *)
(* the calls that pass the earlier ones.                                   *)
(***************************************************************************)
Returned == pc = "done"

\* gamma > 0, as a comparison of f64 (false of NaN)
GammaPositive == input.gamma.cls \in {"fin", "inf"} /\ ~input.gamma.neg

\* 255, 65535, 2^32 - 1 or 2^64 - 1
TypeLimit == BigAllOnes(EntryTypeBits(input.entry_type))

\* C5: a call with a valid gamma and size and a supported entry type is
\* rejected when max_value is above the maximum of the entry type, by an
\* error whose message holds max_value and that maximum, and is accepted
\* when max_value is that maximum or less; gamma 2, size 10, max_value 300
\* with u8 is rejected.
C5_CeilingOverflowRejected ==
  /\ (Returned /\ ~FLeZero(input.gamma) /\ input.size >= 3
        /\ input.entry_type \in SupportedTypes) =>
       IF BigLt(TypeLimit, max_value)
       THEN /\ result.kind = "err"
            /\ result.error = "overflow"
            /\ result.msg[1] = "max_value ("
            /\ result.msg[2] = max_value
            /\ result.msg[4] = TypeLimit
       ELSE result.kind = "ok"
  /\ (Returned /\ input = Scenario(U8, 10, Some(BigFromInt(300)), None)) =>
       result = ErrOverflow(BigFromInt(300), BigFromInt(255), U8)

\* the call with u8, size 10 and max_value 300 has returned its error
C5_Witness ==
  /\ Returned
  /\ input = Scenario(U8, 10, Some(BigFromInt(300)), None)
  /\ result.error = "overflow"

\* C6: without max_value the ceiling is size - 1 (size >= 1), and the
\* entry type check is made of that ceiling as of a given one: u8 with size
\* 1024 is rejected for 1023 > 255, u8 with size 256 is accepted and its
\* last entry is 255.
C6_DefaultCeiling ==
  /\ (pc \notin {"idle", "parse_error"} /\ input.max_value = None
        /\ input.size >= 1) =>
       max_value = BigFromInt(input.size - 1)
  /\ (Returned /\ input.max_value = None /\ ~FLeZero(input.gamma)
        /\ input.size >= 3 /\ input.entry_type \in SupportedTypes) =>
       IF BigLt(TypeLimit, BigFromInt(input.size - 1))
       THEN /\ result.error = "overflow"
            /\ result.msg[2] = BigFromInt(input.size - 1)
            /\ result.msg[4] = TypeLimit
       ELSE result.kind = "ok"
  /\ (Returned /\ input = Scenario(U8, 1024, None, None)) =>
       result = ErrOverflow(BigFromInt(1023), BigFromInt(255), U8)
  /\ (Returned /\ input = Scenario(U8, 256, None, None)) =>
       result.kind = "ok" /\ EmittedTable[256] = BigFromInt(255)

\* the call with u8, size 1024 and no max_value has returned its error
C6_Witness ==
  /\ Returned
  /\ input = Scenario(U8, 1024, None, None)
  /\ result.error = "overflow"
  /\ max_value = BigFromInt(1023)

\* C7: with a positive gamma, size 1 and size 2 are rejected with 'Size
\* must be at least 3 ...'; size 3 is accepted when the other parameters are
\* valid (gamma a positive real number, a supported entry type, a ceiling
\* that fits), and its table has 3 entries of which entry 0 is 0.
C7_MinimumSize ==
  /\ (Returned /\ ~FLeZero(input.gamma) /\ input.size \in {1, 2}) =>
       /\ result.kind = "err"
       /\ result.error = "size"
       /\ result.msg =
            <<"Size must be at least 3 to create a meaningful gamma table. Smaller sizes only have min and max values.">>
       /\ values = <<>>
  /\ (Returned /\ input.size = 3 /\ GammaPositive /\ input.gamma.cls = "fin"
        /\ input.entry_type \in SupportedTypes /\ BigLe(max_value, TypeLimit)) =>
       /\ result.kind = "ok"
       /\ Len(EmittedTable) = 3
       /\ EmittedTable[1] = <<>>

\* an accepted decoding table of 3 entries with a ceiling above 0
C7_Witness ==
  /\ Accepted
  /\ input.size = 3
  /\ input.gamma = FHalf
  /\ input.decoding = Some(TRUE)
  /\ EmittedTable[1] = <<>>
  /\ EmittedTable[3] = BigAllOnes(16)

\* C8: every call with gamma <= 0 (0, -0 or negative) returns the error
\* 'Gamma value must be positive' and no table.
C8_NonPositiveGammaRejected ==
  (Returned /\ (input.gamma.cls = "zero" \/ input.gamma.neg)) =>
    /\ result.kind = "err"
    /\ result.error = "gamma"
    /\ result.msg = <<"Gamma value must be positive">>
    /\ values = <<>>

\* C9: with a valid gamma and size, an entry type other than u8, u16, u32
\* and u64 is rejected with the unsupported-type error whatever max_value
\* is, and each of the four is accepted when the ceiling fits.
C9_UnsupportedTypeRejected ==
  (Returned /\ ~FLeZero(input.gamma) /\ input.size >= 3) =>
    IF input.entry_type \in SupportedTypes
    THEN BigLe(max_value, TypeLimit) => result.kind = "ok"
    ELSE /\ result.kind = "err"
         /\ result.error = "unsupported"
         /\ result.msg[1] = "Unsupported entry_type: "
         /\ values = <<>>

\* the call with i32 and a max_value that no 32-bit type holds has returned
\* the unsupported-type error
C9_Witness ==
  /\ Returned
  /\ input.entry_type = I32
  /\ input.max_value = Some(U64Max)
  /\ result.error = "unsupported"

(***************************************************************************)
(* The encoding and the decoding table of one configuration.               *)
(***************************************************************************)
\* the table that generate_table_values makes of the same gamma, size and
\* max_value in the other mode, by index 0..size - 1
OtherModeTable ==
  LET other == gamma_exponent(input.gamma, ~UnwrapOr(input.decoding, FALSE))
  IN  [i \in 0..(input.size - 1) |-> TableEntry(i, input.size, other, max_value)]

InteriorDiffers(other) ==
  \E i \in 1..(input.size - 2) : values[i + 1] # other[i]

ExactRamp(i, size, max) ==
  BigDivSmall(BigAdd(BigMulSmall(max, 2 * i), BigFromInt(size - 1)), 2 * (size - 1))

\* the entry that generate_table_values computes at index i with exponent
\* 1.0 for the size and max_value of the call
LinearEntry(i) == TableEntry(i, input.size, FOne, max_value)

\* gamma > 1: of the gammas of the model, 2 and infinity
GammaAboveOne == input.gamma \in {FTwo, FInf}

Decoding == UnwrapOr(input.decoding, FALSE)

C12_LinearRamp ==
  (Accepted /\ FEq(input.gamma, FOne)) =>
    \A i \in 0..(input.size - 1) :
      /\ values[i + 1] = ExactRamp(i, input.size, max_value)
      /\ max_value = BigFromInt(input.size - 1) => values[i + 1] = BigFromInt(i)

(***************************************************************************)
(* The parameters of the invocation.                                       *)
(***************************************************************************)
\* C13: an invocation with `steps: 8` (u8, size 256, max_value 255,
\* encoding or decoding) is accepted, and its table has 256 entries, exactly
\* 8 distinct values, never decreases, starts at 0 and ends at 255.
C13_StepsAccepted ==
  input.extra = <<"steps">> =>
    /\ pc # "parse_error"
    /\ pc = "done" =>
         /\ result.kind = "ok"
         /\ Len(EmittedTable) = 256
         /\ Cardinality({EmittedTable[j] : j \in 1..256}) = 8
         /\ \A j \in 1..255 : BigLe(EmittedTable[j], EmittedTable[j + 1])
         /\ EmittedTable[1] = <<>>
         /\ EmittedTable[256] = BigAllOnes(8)

(***************************************************************************)
(* The order of the validation and the call of the evaluator.              *)
(***************************************************************************)
\* the four checks, as the input fails them
GammaNotPositive == input.gamma.cls = "zero" \/ input.gamma.neg

SizeBelowMinimum == input.size < 3

TypeUnsupported == input.entry_type \notin SupportedTypes

CeilingTooLarge == ~TypeUnsupported /\ BigLt(TypeLimit, max_value)

\* C14: the error that a call returns is that of the first check that the
\* configuration fails, in the order gamma > 0, size >= 3, entry type
\* supported, ceiling <= type maximum: gamma <= 0 with size < 3 gives the
\* gamma error, size < 3 with an unsupported type the size error, an
\* unsupported type with a ceiling too large the unsupported-type error.
C14_EarliestCheckReported ==
  Returned =>
    IF GammaNotPositive THEN result.kind = "err" /\ result.error = "gamma"
    ELSE IF SizeBelowMinimum THEN result.kind = "err" /\ result.error = "size"
    ELSE IF TypeUnsupported THEN result.kind = "err" /\ result.error = "unsupported"
    ELSE IF CeilingTooLarge THEN result.kind = "err" /\ result.error = "overflow"
    ELSE result.kind = "ok"

\* C15: generate_table_values runs only in calls that pass the four checks,
\* and a call that fails one of them returns an error and no tokens of a
\* table.
C15_EvaluatorAfterValidation ==
  /\ (pc \in {"evaluate", "loop"} \/ values # <<>>) =>
       /\ ~GammaNotPositive
       /\ ~SizeBelowMinimum
       /\ ~TypeUnsupported
       /\ ~CeilingTooLarge
  /\ (Returned /\ (GammaNotPositive \/ SizeBelowMinimum \/ TypeUnsupported
                    \/ CeilingTooLarge)) =>
       /\ result.kind = "err"
       /\ values = <<>>

\* C16: without max_value, the default ceiling size - 1 is computed with
\* no underflow for every size, 0 too: the call does not panic, the
\* ceiling does not wrap around to the largest value, and with a positive
\* gamma size 0 gets the error 'Size must be at least 3 ...' of size 1 and
\* size 2.
C16_NoUnderflow ==
  (pc \notin {"idle", "parse_error"} /\ input.max_value = None) =>
    /\ result.kind # "panic"
    /\ input.size = 0 => max_value # U64Max
    /\ (Returned /\ ~GammaNotPositive /\ input.size \in {0, 1, 2}) => result = ErrSize
====
